---- MODULE Spec2Model ----
(***************************************************************************)
(* Credit lifecycle engine of abi_banking: credit creation with its        *)
(* payment schedule, manual payment (PayCredit) and the payment scheduler. *)
(*                                                                         *)
(* The state is the content of the tables credits, payment_schedules and   *)
(* accounts, plus the position and locals of every request in flight.      *)
(* Every SQL statement of the repositories is executed on r.db (the        *)
(* connection pool), never on the *sql.Tx a service opens, so a statement  *)
(* is its own committed transaction and is one atomic step here; the       *)
(* deferred tx.Rollback() of the services has nothing to undo.             *)
(*                                                                         *)
(* The repository carries several definitions of the same operation        *)
(* (CreditService.PayCredit in credit_service.go and in unnamed/part_009,  *)
(* AccountService.PayCredit; CreditRepository.GetByID in                   *)
(* credit_repository.go and in unnamed/part_012, ...).  Each definition is *)
(* modelled on the same tables, a request names the one that serves it.    *)
(*                                                                         *)
(* Money is counted in cents; a DECIMAL(15,2) column rounds to the cent.   *)
(***************************************************************************)
EXTENDS Integers, Sequences, FiniteSets, TLC

\* ---------------------------------------------------------------- bounds
MaxCredits == 1            \* rows of the table credits
MaxTerm == 2               \* largest termMonths requested
MaxCalls == 2              \* PayCredit requests per behaviour
MaxNow == 1                \* months the clock may advance
MaxDeposits == 1           \* Deposit requests per behaviour
MaxRuns == 2               \* sweeps counted in one succession
MaxDue == 2                \* credits one tick of the scheduler may find due
MaxAnalytics == 1          \* GetCreditAnalytics requests per behaviour
MaxStops == 2              \* calls of Stop per behaviour
MaxWithdraws == 1          \* Withdraw requests per behaviour

Amounts == {100}           \* principal of a CreateCredit request
Rates == {120}             \* annual interest rate, percent (10% a month)
Terms == 1..MaxTerm
Balances == {200}          \* opening balance of the funding account
LowBalances == {90, 200}   \* opening balances, one below an installment
WithdrawAmounts == {50, 150}
DepositAmounts == {100}    \* amount of a Deposit request
Payers == {"p1", "p2"}     \* concurrent PayCredit requests
PayAmounts == {0, 30, 58, 100, 110}

\* ------------------------------------------------------------ arithmetic
RECURSIVE GCD(_, _)
GCD(a, b) == IF b = 0 THEN a ELSE GCD(b, a % b)

RECURSIVE Pow(_, _)
Pow(b, e) == IF e = 0 THEN 1 ELSE b * Pow(b, e - 1)

\* a quotient a/b (b > 0) rounded to the nearest integer, half away from
\* zero: what a DECIMAL(15,2) column keeps of a float64 counted in cents
RoundDiv(a, b) ==
    IF a >= 0 THEN (2 * a + b) \div (2 * b) ELSE -((2 * (-a) + b) \div (2 * b))

\* monthlyRate := annualRate / 12 / 100, as a fraction <<num, den>>
MonthlyRate(annualRate) ==
    LET g == GCD(annualRate, 1200) IN <<annualRate \div g, 1200 \div g>>

\* a payment without interest: the principal in equal parts
FlatPayment(amount, annualRate, termMonths) == <<amount, termMonths>>

\* amount * (monthlyRate / (1 - (1+monthlyRate)^-n)), as a fraction
\*   = amount * num * (den+num)^n / (den * ((den+num)^n - den^n))
CalculateAnnuityPayment(amount, annualRate, termMonths) ==
    LET mr == MonthlyRate(annualRate)
        up == Pow(mr[2] + mr[1], termMonths)
        dn == Pow(mr[2], termMonths)
    IN  <<amount * mr[1] * up, mr[2] * (up - dn)>>

\* the value the column payment_schedules.amount keeps of the payment
StoredPayment(amount, annualRate, termMonths) ==
    LET q == CalculateAnnuityPayment(amount, annualRate, termMonths)
    IN  RoundDiv(q[1], q[2])

\* ------------------------------------------------------- status strings
CreditStatusActive == "active"
PaymentStatusPendingUpper == "PENDING"
PaymentStatusPending == "pending"
PaymentStatusPaid == "paid"

VARIABLES
    credits,     \* table credits: sequence of rows, the index is the id
    sched,       \* table payment_schedules: per credit id, its rows in insertion order
    balance,     \* table accounts: balance of the funding account
    now,         \* the clock, in months
    createRes,   \* result of the last CreateCredit
    pay,         \* per PayCredit request: position and locals
    wrote,       \* per PayCredit request: the request has changed a table
    calls,       \* PayCredit requests started so far
    sw,          \* the payment scheduler: position and locals of the sweep
    creq,        \* the last CreateCredit request: its service, its inputs and
                 \* the number of credits that existed when it arrived
    exact,       \* per credit id: payments of exactly the next scheduled amount
                 \* accepted in a row since its creation, -1 once another one came
    dep,         \* a Deposit request in flight: position, balance read, count
    hist,        \* sweeps run in succession: what they ran beside, how many,
                 \* the tables before the last
    ctl,         \* the scheduler: its goroutine, the tick waiting in ticker.C, Stop called
    an,          \* a GetCreditAnalytics request: position, locals, result
    gen,         \* a call of a schedule generator: its inputs, what it returned
    wd           \* a Withdraw request in flight: position, balance read, result, count

vars == <<credits, sched, balance, now, createRes, creq, pay, wrote, calls, sw, exact, dep, hist, ctl, an, gen, wd>>

CreditIds == 1..Len(credits)

\* ------------------------------------------------- schedule generation
\* models.GeneratePaymentSchedule of unnamed/part_001 (second definition):
\* equal payments, PaymentDate = startDate.AddDate(0, i, 0), "PENDING"
GeneratePaymentSchedule(amount, annualRate, termMonths, startDate) ==
    [i \in 1..termMonths |->
        [num |-> i, due |-> startDate + (i - 1),
         amount |-> StoredPayment(amount, annualRate, termMonths),
         status |-> "PENDING"]]

\* models.GeneratePaymentSchedule of unnamed/part_001 (first definition, a
\* slice of pointers): PaymentDate = startDate.AddDate(0, i+1, 0), "PENDING";
\* the last payment is remainingPrincipal * (1 + monthlyInterestRate), which
\* is the monthly payment again
GeneratePaymentSchedulePtr(amount, annualRate, termMonths, startDate) ==
    [i \in 1..termMonths |->
        [num |-> i, due |-> startDate + i,
         amount |-> StoredPayment(amount, annualRate, termMonths),
         status |-> "PENDING"]]

\* models.GeneratePaymentSchedule of models/credit.go: equal payments,
\* DueDate = startDate.AddDate(0, i, 0), PaymentStatusPending
GeneratePaymentScheduleTyped(amount, annualRate, termMonths, startDate) ==
    [i \in 1..termMonths |->
        [num |-> i, due |-> startDate + (i - 1),
         amount |-> StoredPayment(amount, annualRate, termMonths),
         status |-> PaymentStatusPending]]

\* CreditService.GeneratePaymentSchedule of unnamed/part_010: equal payments,
\* first DueDate one month from now, PaymentStatusPending
ServiceGeneratePaymentSchedule(amount, annualRate, termMonths, startDate) ==
    [i \in 1..termMonths |->
        [num |-> i, due |-> startDate + i,
         amount |-> StoredPayment(amount, annualRate, termMonths),
         status |-> PaymentStatusPending]]

\* ---------------------------------------- the generators, in full
\* float64 values as exact fractions <<num, den>>, den > 0, in lowest terms
Abs(n) == IF n < 0 THEN -n ELSE n

FracNorm(n, d) ==
    LET g == GCD(Abs(n), d) IN <<n \div g, d \div g>>

FracAdd(x, y) ==
    LET g == GCD(x[2], y[2])
    IN  FracNorm(x[1] * (y[2] \div g) + y[1] * (x[2] \div g), (x[2] \div g) * y[2])

FracSub(x, y) == FracAdd(x, <<-y[1], y[2]>>)

FracMul(x, y) ==
    LET g1 == GCD(Abs(x[1]), y[2])
        g2 == GCD(Abs(y[1]), x[2])
    IN  FracNorm((x[1] \div g1) * (y[1] \div g2), (x[2] \div g2) * (y[2] \div g1))

\* calculateMonthlyPayment of unnamed/part_001: principal / termMonths when
\* the rate is 0, else principal * rate * pow / (pow - 1), pow = (1+rate)^n
CalculateMonthlyPayment(principal, annualRate, termMonths) ==
    IF annualRate = 0 THEN FracNorm(principal, termMonths)
    ELSE LET mr == MonthlyRate(annualRate)
             pow == Pow(mr[2] + mr[1], termMonths)
             one == Pow(mr[2], termMonths)
         IN  FracNorm(principal * mr[1] * pow, mr[2] * (pow - one))

\* the loop of GeneratePaymentSchedule of unnamed/part_001:48-79 from
\* iteration i on (i counts from 0): the rows, then remainingPrincipal
RECURSIVE PtrLoop(_, _, _, _, _, _)
PtrLoop(i, termMonths, mr, monthlyPayment, remainingPrincipal, startDate) ==
    IF i >= termMonths THEN <<<<>>, remainingPrincipal>>
    ELSE LET last == i = termMonths - 1
             payment == IF last THEN FracMul(remainingPrincipal, FracAdd(<<1, 1>>, mr))
                        ELSE monthlyPayment
             monthlyPrincipal == IF last THEN remainingPrincipal
                                 ELSE FracSub(monthlyPayment, FracMul(remainingPrincipal, mr))
             row == [num |-> i + 1, due |-> startDate + (i + 1), amount |-> payment,
                     principal |-> monthlyPrincipal,
                     interest |-> FracSub(payment, monthlyPrincipal)]
             rest == PtrLoop(i + 1, termMonths, mr, payment,
                             FracSub(remainingPrincipal, monthlyPrincipal), startDate)
         IN  <<<<row>> \o rest[1], rest[2]>>

\* the loop of GeneratePaymentSchedule of models/credit.go:70-89 and of
\* unnamed/part_001:144-166: every row takes monthlyPayment, the date is
\* startDate.AddDate(0, i, 0); principal and interest are the locals (the
\* rows of models/credit.go do not carry them)
RECURSIVE ValueLoop(_, _, _, _, _, _)
ValueLoop(i, termMonths, mr, monthlyPayment, remainingPrincipal, startDate) ==
    IF i >= termMonths THEN <<<<>>, remainingPrincipal>>
    ELSE LET interest == FracMul(remainingPrincipal, mr)
             principal == FracSub(monthlyPayment, interest)
             row == [num |-> i + 1, due |-> startDate + i, amount |-> monthlyPayment,
                     principal |-> principal, interest |-> interest]
             rest == ValueLoop(i + 1, termMonths, mr, monthlyPayment,
                               FracSub(remainingPrincipal, principal), startDate)
         IN  <<<<row>> \o rest[1], rest[2]>>

\* the generators a call may name, and the requests drawn for them
Generators == {"part_001:48", "part_001:144", "models/credit.go"}
ScheduleAmounts == {1000, 5000}
ScheduleRates == {60, 120, 600}
ScheduleTerms == 1..(MaxTerm + 1)

NoSchedule ==
    [fn |-> "none", amount |-> 0, rate |-> 0, term |-> 0, start |-> 0,
     pc |-> "none", rows |-> <<>>, rem |-> <<0, 1>>]

ScheduleCalls ==
    {[NoSchedule EXCEPT !.fn = f, !.amount = a, !.rate = r, !.term = t,
                        !.start = s, !.pc = "call"] :
        f \in Generators, a \in ScheduleAmounts, r \in ScheduleRates,
        t \in ScheduleTerms, s \in 0..MaxNow}

Returned(res) ==
    /\ gen' = [gen EXCEPT !.pc = "done", !.rows = res[1], !.rem = res[2]]
    /\ UNCHANGED <<credits, sched, balance, now, createRes, creq, pay, wrote, calls, sw, exact, dep, hist, ctl, an, wd>>

\* models.GeneratePaymentSchedule(credit, startDate) of unnamed/part_001:48
GeneratePtr ==
    /\ gen.pc = "call" /\ gen.fn = "part_001:48"
    /\ Returned(PtrLoop(0, gen.term, MonthlyRate(gen.rate),
                CalculateMonthlyPayment(gen.amount, gen.rate, gen.term),
                <<gen.amount, 1>>, gen.start))

\* models.GeneratePaymentSchedule(credit, startDate) of unnamed/part_001:144
GenerateValue ==
    /\ gen.pc = "call" /\ gen.fn = "part_001:144"
    /\ Returned(ValueLoop(0, gen.term, MonthlyRate(gen.rate),
                FracNorm(CalculateAnnuityPayment(gen.amount, gen.rate, gen.term)[1],
                         CalculateAnnuityPayment(gen.amount, gen.rate, gen.term)[2]),
                <<gen.amount, 1>>, gen.start))

\* models.GeneratePaymentSchedule(credit, startDate) of models/credit.go
GenerateTyped ==
    /\ gen.pc = "call" /\ gen.fn = "models/credit.go"
    /\ Returned(ValueLoop(0, gen.term, MonthlyRate(gen.rate),
                FracNorm(CalculateAnnuityPayment(gen.amount, gen.rate, gen.term)[1],
                         CalculateAnnuityPayment(gen.amount, gen.rate, gen.term)[2]),
                <<gen.amount, 1>>, gen.start))

\* the value of credits.remaining_amount in a freshly inserted row: the
\* INSERT of CreditRepository.Create does not name the column and no
\* migration of the repository declares it
InsertedRemaining(amount) == amount

NewCreditRow(amount, annualRate, termMonths, status) ==
    [amount |-> amount, rate |-> annualRate, term |-> termMonths,
     status |-> status, remaining |-> InsertedRemaining(amount)]

\* ------------------------------------------------------------- Init
NoRequest == [impl |-> "none", amount |-> 0, term |-> 0, rate |-> 0, n0 |-> 0]

\* the CreateCredit request as the handler received it
CreateRequest(impl, amount, termMonths, annualRate) ==
    [impl |-> impl, amount |-> amount, term |-> termMonths, rate |-> annualRate,
     n0 |-> Len(credits)]

IdlePay ==
    [pc |-> "idle", impl |-> "none", repo |-> "none", cid |-> 0,
     req |-> 0, amount |-> 0, rem |-> 0, status |-> "none",
     snap |-> <<>>, idx |-> 0, res |-> "none",
     \* history: the credit as it was when the request loaded it
     loaded |-> FALSE, status0 |-> "none", rem0 |-> 0, stored0 |-> 0,
     unpaid0 |-> 0, pending0 |-> 0, start |-> 0, endc |-> 0,
     run0 |-> 0, isExact |-> FALSE]

\* pen: the balance read by processPayment was below the installment;
\* bal0: the balance when processPayment was called for the credit
IdleSweep ==
    [pc |-> "idle", list |-> <<>>, i |-> 0, row |-> 0, amount10 |-> 0, bal |-> 0,
     pen |-> FALSE, bal0 |-> 0]

\* NewPaymentScheduler: a ticker with an empty channel, run not yet started,
\* Stop not yet called
NewPaymentScheduler ==
    [run |-> "new", tick |-> 0, stop |-> FALSE, waiting |-> 0, returned |-> 0]

\* the locals of GetCreditAnalytics before its loop; hasNext is
\* nextPaymentDate != nil
NoAnalytics ==
    [totalCredits |-> 0, totalAmount |-> 0, totalPaid |-> 0, totalRemaining |-> 0,
     totalInterest |-> 0, averageInterest |-> 0, creditsByStatus |-> <<>>,
     hasNext |-> FALSE, nextPaymentDate |-> 0, nextPaymentAmount |-> 0]

\* before: the tables when the request arrived
IdleAnalytics ==
    [pc |-> "idle", list |-> <<>>, i |-> 0, acc |-> NoAnalytics, res |-> "none",
     before |-> <<>>, n |-> 0]

NoHistory ==
    [env |-> <<>>, runs |-> 0, before |-> <<>>, clean |-> TRUE,
     settled |-> <<>>]

IdleDeposit == [pc |-> "idle", bal |-> 0, amount |-> 0, n |-> 0]

IdleWithdraw == [pc |-> "idle", bal |-> 0, amount |-> 0, n |-> 0, res |-> "none"]

\* the state after the migration, with the funding account's balance in B
\* and the generator call G
InitBut(B, G) ==
    /\ credits = <<>>
    /\ sched = <<>>
    /\ balance \in B
    /\ now = 0
    /\ createRes = "none"
    /\ creq = NoRequest
    /\ pay = [p \in Payers |-> IdlePay]
    /\ wrote = [p \in Payers |-> FALSE]
    /\ calls = 0
    /\ sw = IdleSweep
    /\ exact = [c \in 1..MaxCredits |-> 0]
    /\ wd = IdleWithdraw
    /\ gen \in G
    /\ an = IdleAnalytics
    /\ ctl = NewPaymentScheduler
    /\ hist = NoHistory
    /\ dep = IdleDeposit

InitWith(B) == InitBut(B, {NoSchedule})

Init == InitWith(Balances)

\* ------------------------------------------------------- CreateCredit
\* CreditService.CreateCredit of credit_service.go with
\* CreditRepository.Create of credit_repository.go: the credit row and its
\* schedule rows are inserted on one tx and committed together
CreateCredit(amount, termMonths, annualRate, dbOk) ==
    /\ Len(credits) < MaxCredits
    /\ creq' = CreateRequest("CreditService", amount, termMonths, annualRate)
    /\ IF amount <= 0 \/ termMonths <= 0 \/ annualRate <= 0
       THEN /\ createRes' = "InvalidArgument"
            /\ UNCHANGED <<credits, sched>>
       ELSE IF ~dbOk
       THEN /\ createRes' = "Internal"
            /\ UNCHANGED <<credits, sched>>
       ELSE /\ credits' = Append(credits,
                    NewCreditRow(amount, annualRate, termMonths, "ACTIVE"))
            /\ sched' = Append(sched,
                    GeneratePaymentSchedule(amount, annualRate, termMonths, now))
            /\ createRes' = "ok"
    /\ UNCHANGED <<balance, now, pay, wrote, calls, sw, exact, dep, hist, ctl, an, gen, wd>>

\* CreditService.CreateCredit of unnamed/part_010 with CreditRepository.Create
\* and CreatePaymentSchedule of unnamed/part_013: Create commits the credit
\* with a schedule of its own, then the service inserts the rows of
\* s.GeneratePaymentSchedule one statement at a time; k of them succeed
CreateCreditUpTo(limit, amount, termMonths, annualRate, dbOk, k) ==
    /\ Len(credits) < limit
    /\ creq' = CreateRequest("CreditService010", amount, termMonths, annualRate)
    /\ IF ~dbOk
       THEN /\ createRes' = "Internal"
            /\ UNCHANGED <<credits, sched>>
       ELSE /\ credits' = Append(credits,
                    NewCreditRow(amount, annualRate, termMonths, CreditStatusActive))
            /\ sched' = Append(sched,
                    GeneratePaymentScheduleTyped(amount, annualRate, termMonths, now)
                    \o SubSeq(ServiceGeneratePaymentSchedule(
                                  amount, annualRate, termMonths, now), 1, k))
            /\ createRes' = IF k = termMonths THEN "ok" ELSE "Internal"
    /\ UNCHANGED <<balance, now, pay, wrote, calls, sw, exact, dep, hist, ctl, an, gen, wd>>

CreateCreditTyped(amount, termMonths, annualRate, dbOk, k) ==
    CreateCreditUpTo(MaxCredits, amount, termMonths, annualRate, dbOk, k)

\* AccountService.CreateCredit of account_service.go:193-222: no check of the
\* request; CreditRepository.Create commits the credit with its schedule,
\* then the service generates the schedule again and inserts it with one
\* CreatePaymentSchedule statement per row; k of them succeed
AsCreateCredit(amount, termMonths, annualRate, dbOk, k) ==
    /\ Len(credits) < MaxCredits
    /\ creq' = CreateRequest("AccountService", amount, termMonths, annualRate)
    /\ IF ~dbOk
       THEN /\ createRes' = "Internal"
            /\ UNCHANGED <<credits, sched>>
       ELSE /\ credits' = Append(credits,
                    NewCreditRow(amount, annualRate, termMonths, "ACTIVE"))
            /\ sched' = Append(sched,
                    GeneratePaymentSchedulePtr(amount, annualRate, termMonths, now)
                    \o SubSeq(GeneratePaymentSchedulePtr(
                                  amount, annualRate, termMonths, now), 1, k))
            /\ createRes' = IF k = termMonths THEN "ok" ELSE "Internal"
    /\ UNCHANGED <<balance, now, pay, wrote, calls, sw, exact, dep, hist, ctl, an, gen, wd>>

\* CreditService.CreateCredit of unnamed/part_009:24-44: no check of the
\* request, CreditRepository.Create and nothing else
P9CreateCredit(amount, termMonths, annualRate, dbOk) ==
    /\ Len(credits) < MaxCredits
    /\ creq' = CreateRequest("CreditService009", amount, termMonths, annualRate)
    /\ IF ~dbOk
       THEN /\ createRes' = "Internal"
            /\ UNCHANGED <<credits, sched>>
       ELSE /\ credits' = Append(credits,
                    NewCreditRow(amount, annualRate, termMonths, "ACTIVE"))
            /\ sched' = Append(sched,
                    GeneratePaymentSchedule(amount, annualRate, termMonths, now))
            /\ createRes' = "ok"
    /\ UNCHANGED <<balance, now, pay, wrote, calls, sw, exact, dep, hist, ctl, an, gen, wd>>

Tick ==
    /\ now < MaxNow
    /\ now' = now + 1
    /\ UNCHANGED <<credits, sched, balance, createRes, creq, pay, wrote, calls, sw, exact, dep, hist, ctl, an, gen, wd>>

\* ------------------------------------------------------ repositories
\* CreditRepository.GetByID of credit_repository.go: the SELECT does not name
\* remaining_amount, the field keeps the zero value of a float64
GetByID(cid) ==
    [status |-> credits[cid].status, amount |-> credits[cid].amount,
     remaining |-> 0]

RECURSIVE SumPaid(_, _)
SumPaid(rows, i) ==
    IF i > Len(rows) THEN 0
    ELSE (IF rows[i].status = "PAID" THEN rows[i].amount ELSE 0) + SumPaid(rows, i + 1)

\* CreditRepository.GetByID of unnamed/part_012, its second half: the
\* remaining amount is the principal less the amounts of the PAID rows
RemainingFromSchedule(amount, rows) == amount - SumPaid(rows, 1)

\* CreditRepository.GetPaymentSchedule: the rows of the credit, in order
GetPaymentSchedule(cid) == sched[cid]

\* index of the first row at or after i whose status is "PENDING", 0 if none
RECURSIVE FirstPending(_, _)
FirstPending(rows, i) ==
    IF i > Len(rows) THEN 0
    ELSE IF rows[i].status = "PENDING" THEN i
    ELSE FirstPending(rows, i + 1)

\* UPDATE payment_schedules SET status = $1 WHERE id = $2
UpdatePaymentStatus(cid, i, status) ==
    sched' = [sched EXCEPT ![cid][i].status = status]

\* UPDATE credits SET remaining_amount = $1 WHERE id = $2
UpdateRemainingAmount(cid, amount) ==
    credits' = [credits EXCEPT ![cid].remaining = amount]

\* CreditRepository.Update of credit_repository.go: status and remaining_amount
Update(cid, status, remaining) ==
    credits' = [credits EXCEPT ![cid].status = status, ![cid].remaining = remaining]

\* CreditRepository.Update of unnamed/part_012: the status only
UpdateStatusOnly(cid, status, remaining) ==
    credits' = [credits EXCEPT ![cid].status = status]

\* ------------------------------------------------------------ PayCredit
Impls == {"CreditService", "AccountService", "CreditService009"}
Repos == {"credit_repository", "part_012"}

RECURSIVE CountStatus(_, _, _)
CountStatus(rows, i, st) ==
    IF i > Len(rows) THEN 0
    ELSE (IF rows[i].status = st THEN 1 ELSE 0) + CountStatus(rows, i + 1, st)

\* index of the first row that is not PAID, 0 if none
RECURSIVE FirstUnpaid(_, _)
FirstUnpaid(rows, i) ==
    IF i > Len(rows) THEN 0
    ELSE IF rows[i].status # "PAID" THEN i
    ELSE FirstUnpaid(rows, i + 1)

\* the answer to a failed GetByID: account_service.go:244-247 calls every
\* error "credit not found", the other services pass the error on
LoadError(impl) == IF impl = "AccountService" THEN "NotFound" ELSE "Internal"

\* the request answers res; endc is the number of requests started by then
Finish(p, rec, res) ==
    pay' = [pay EXCEPT ![p] =
               [rec EXCEPT !.pc = "done", !.res = res,
                           !.endc = IF rec.start > calls THEN rec.start ELSE calls]]

\* what a step of request p leaves in the history variables: wrote[p] once a
\* table has changed, and, when the request answers, the run of payments of
\* exactly the next scheduled amount that its credit has seen since creation
Ghosts(p) ==
    /\ wrote' = [wrote EXCEPT ![p] = @ \/ credits' # credits \/ sched' # sched]
    /\ exact' = IF pay'[p].pc = "done" /\ pay[p].pc # "done" /\ pay'[p].cid \in CreditIds
                THEN [exact EXCEPT ![pay'[p].cid] =
                         IF @ >= 0 /\ pay'[p].isExact /\ pay'[p].res = "ok"
                         THEN @ + 1 ELSE -1]
                ELSE exact

\* the checks without the comparison with the remaining amount
ValidateNoUpper(impl, status, rem, amount) ==
    IF impl # "CreditService" /\ status # "ACTIVE" THEN "InvalidState"
    ELSE IF amount <= 0 THEN "InvalidArgument"
    ELSE "pass"

\* the checks of PayCredit between GetByID and its first statement
\*   credit_service.go:170-176 (no status check)
\*   account_service.go:249-259, unnamed/part_009:73-83
Validate(impl, status, rem, amount) ==
    IF impl # "CreditService" /\ status # "ACTIVE" THEN "InvalidState"
    ELSE IF amount <= 0 THEN "InvalidArgument"
    ELSE IF amount > rem THEN "InvalidArgument"
    ELSE "pass"

FirstPc(impl) ==
    CASE impl = "CreditService" -> "cs_update"
      [] impl = "AccountService" -> "as_sched"
      [] OTHER -> "p9_sched"

\* the credit is loaded with RemainingAmount = rem: validate and go on
Loaded(p, rec, rem) ==
    LET r2 == [rec EXCEPT !.rem = rem, !.rem0 = rem, !.loaded = TRUE]
        v == Validate(rec.impl, rec.status, rem, rec.amount)
    IN  IF v # "pass" THEN Finish(p, r2, v)
        ELSE pay' = [pay EXCEPT ![p] = [r2 EXCEPT !.pc = FirstPc(rec.impl)]]

\* PayCredit up to and including the validation; with the GetByID of
\* unnamed/part_012 the schedule is read in a second statement first
PayCredit(p, impl, repo, cid, amount, dbOk) ==
    /\ pay[p].pc = "idle"
    /\ calls < MaxCalls
    /\ calls' = calls + 1
    /\ LET rec == [IdlePay EXCEPT !.impl = impl, !.repo = repo, !.cid = cid,
                                  !.req = amount, !.amount = amount,
                                  !.start = calls + 1]
       IN  IF cid \notin CreditIds THEN Finish(p, rec, "NotFound")
           ELSE IF ~dbOk THEN Finish(p, rec, LoadError(impl))
           ELSE LET c == GetByID(cid)
                    u == FirstUnpaid(sched[cid], 1)
                    r2 == [rec EXCEPT !.status = c.status, !.status0 = c.status,
                              !.stored0 = credits[cid].remaining,
                              !.unpaid0 = Len(sched[cid]) - CountStatus(sched[cid], 1, "PAID"),
                              !.pending0 = CountStatus(sched[cid], 1, "PENDING"),
                              !.run0 = exact[cid],
                              !.isExact = u # 0 /\ amount = sched[cid][u].amount]
                IN  IF repo = "part_012"
                    THEN pay' = [pay EXCEPT ![p] = [r2 EXCEPT !.pc = "get_sched"]]
                    ELSE Loaded(p, r2, c.remaining)
    /\ UNCHANGED <<credits, sched, balance, now, createRes, creq, sw, dep, hist, ctl, an, gen, wd>>
    /\ Ghosts(p)

\* GetByID of unnamed/part_012, second statement, then the validation
GetByIDSchedule(p, dbOk) ==
    /\ pay[p].pc = "get_sched"
    /\ LET rec == pay[p]
       IN  IF ~dbOk THEN Finish(p, rec, LoadError(rec.impl))
           ELSE Loaded(p, rec, RemainingFromSchedule(credits[rec.cid].amount,
                                                     GetPaymentSchedule(rec.cid)))
    /\ UNCHANGED <<credits, sched, balance, now, createRes, creq, calls, sw, dep, hist, ctl, an, gen, wd>>
    /\ Ghosts(p)

\* ---- CreditService.PayCredit of credit_service.go:178-217
\* s.creditRepo.UpdateRemainingAmount(creditID, credit.RemainingAmount - req.Amount)
CsUpdateRemaining(p, dbOk) ==
    /\ pay[p].pc = "cs_update"
    /\ IF dbOk
       THEN /\ UpdateRemainingAmount(pay[p].cid, pay[p].rem - pay[p].amount)
            /\ pay' = [pay EXCEPT ![p].pc = "cs_sched"]
       ELSE /\ Finish(p, pay[p], "Internal")
            /\ UNCHANGED credits
    /\ UNCHANGED <<sched, balance, now, createRes, creq, calls, sw, dep, hist, ctl, an, gen, wd>>
    /\ Ghosts(p)

\* schedule, err := s.creditRepo.GetPaymentSchedule(creditID); the loop runs
\* over this copy and returns nil when no PENDING row is left in it
CsGetSchedule(p, dbOk) ==
    /\ pay[p].pc = "cs_sched"
    /\ LET rows == GetPaymentSchedule(pay[p].cid)
           j == FirstPending(rows, 1)
       IN  IF ~dbOk THEN Finish(p, pay[p], "Internal")
           ELSE IF j = 0 THEN Finish(p, [pay[p] EXCEPT !.snap = rows], "ok")
           ELSE pay' = [pay EXCEPT ![p] = [@ EXCEPT !.snap = rows, !.idx = j, !.pc = "cs_loop"]]
    /\ UNCHANGED <<credits, sched, balance, now, createRes, creq, calls, sw, dep, hist, ctl, an, gen, wd>>
    /\ Ghosts(p)

\* one PENDING row of the copy: PAID and req.Amount -= payment.Amount when
\* req.Amount >= payment.Amount, else PARTIAL and break
CsLoop(p, dbOk) ==
    /\ pay[p].pc = "cs_loop"
    /\ LET rec == pay[p]
           row == rec.snap[rec.idx]
           full == rec.amount >= row.amount
           left == IF full THEN rec.amount - row.amount ELSE rec.amount
           j == FirstPending(rec.snap, rec.idx + 1)
       IN  IF ~dbOk
           THEN /\ Finish(p, rec, "Internal")
                /\ UNCHANGED sched
           ELSE /\ UpdatePaymentStatus(rec.cid, rec.idx, IF full THEN "PAID" ELSE "PARTIAL")
                /\ IF full /\ j # 0
                   THEN pay' = [pay EXCEPT ![p] = [rec EXCEPT !.amount = left, !.idx = j]]
                   ELSE Finish(p, [rec EXCEPT !.amount = left], "ok")
    /\ UNCHANGED <<credits, balance, now, createRes, creq, calls, sw, dep, hist, ctl, an, gen, wd>>
    /\ Ghosts(p)

\* ---- AccountService.PayCredit of account_service.go:261-307
\* BeginTransaction, GetPaymentSchedule, the first PENDING row
AsGetSchedule(p, dbOk) ==
    /\ pay[p].pc = "as_sched"
    /\ LET rows == GetPaymentSchedule(pay[p].cid)
           j == FirstPending(rows, 1)
       IN  IF ~dbOk THEN Finish(p, pay[p], "Internal")
           ELSE IF j = 0 THEN Finish(p, [pay[p] EXCEPT !.snap = rows], "NoPendingPayment")
           ELSE pay' = [pay EXCEPT ![p] = [@ EXCEPT !.snap = rows, !.idx = j, !.pc = "as_mark"]]
    /\ UNCHANGED <<credits, sched, balance, now, createRes, creq, calls, sw, dep, hist, ctl, an, gen, wd>>
    /\ Ghosts(p)

\* UpdatePaymentSchedule(nextPayment) with Status "PAID"; then
\* credit.RemainingAmount -= amount, and either Update or Commit
AsMarkPaid(p, dbOk, commitOk) ==
    /\ pay[p].pc = "as_mark"
    /\ LET rec == pay[p]
           rem == rec.rem - rec.amount
       IN  IF ~dbOk
           THEN /\ Finish(p, rec, "Internal")
                /\ UNCHANGED sched
           ELSE /\ UpdatePaymentStatus(rec.cid, rec.idx, "PAID")
                /\ IF rem = 0
                   THEN pay' = [pay EXCEPT ![p] = [rec EXCEPT !.rem = rem, !.pc = "as_update"]]
                   ELSE Finish(p, [rec EXCEPT !.rem = rem],
                               IF commitOk THEN "ok" ELSE "Internal")
    /\ UNCHANGED <<credits, balance, now, createRes, creq, calls, sw, dep, hist, ctl, an, gen, wd>>
    /\ Ghosts(p)

\* credit.Status = "COMPLETED"; s.creditRepo.Update(credit); tx.Commit()
AsUpdateCredit(p, dbOk, commitOk) ==
    /\ pay[p].pc = "as_update"
    /\ LET rec == pay[p]
       IN  IF ~dbOk
           THEN /\ Finish(p, rec, "Internal")
                /\ UNCHANGED credits
           ELSE /\ IF rec.repo = "part_012"
                   THEN UpdateStatusOnly(rec.cid, "COMPLETED", rec.rem)
                   ELSE Update(rec.cid, "COMPLETED", rec.rem)
                /\ Finish(p, [rec EXCEPT !.status = "COMPLETED"],
                          IF commitOk THEN "ok" ELSE "Internal")
    /\ UNCHANGED <<sched, balance, now, createRes, creq, calls, sw, dep, hist, ctl, an, gen, wd>>
    /\ Ghosts(p)

\* ---- CreditService.PayCredit of unnamed/part_009:85-116
P9GetSchedule(p, dbOk) ==
    /\ pay[p].pc = "p9_sched"
    /\ LET rows == GetPaymentSchedule(pay[p].cid)
           j == FirstPending(rows, 1)
       IN  IF ~dbOk THEN Finish(p, pay[p], "Internal")
           ELSE IF j = 0 THEN Finish(p, [pay[p] EXCEPT !.snap = rows], "NoPendingPayment")
           ELSE pay' = [pay EXCEPT ![p] = [@ EXCEPT !.snap = rows, !.idx = j, !.pc = "p9_mark"]]
    /\ UNCHANGED <<credits, sched, balance, now, createRes, creq, calls, sw, dep, hist, ctl, an, gen, wd>>
    /\ Ghosts(p)

\* UpdatePaymentStatus(nextPayment.ID, "PAID"); the new remaining amount and
\* the status COMPLETED are set on the local credit only
P9MarkPaid(p, dbOk) ==
    /\ pay[p].pc = "p9_mark"
    /\ LET rec == pay[p]
           rem == rec.rem - rec.amount
       IN  IF ~dbOk
           THEN /\ Finish(p, rec, "Internal")
                /\ UNCHANGED sched
           ELSE /\ UpdatePaymentStatus(rec.cid, rec.idx, "PAID")
                /\ Finish(p, [rec EXCEPT !.rem = rem,
                                         !.status = IF rem = 0 THEN "COMPLETED" ELSE @], "ok")
    /\ UNCHANGED <<credits, balance, now, createRes, creq, calls, sw, dep, hist, ctl, an, gen, wd>>
    /\ Ghosts(p)

\* the handler has answered; the request slot is free again
Return(p) ==
    /\ pay[p].pc = "done"
    /\ pay' = [pay EXCEPT ![p] = IdlePay]
    /\ wrote' = [wrote EXCEPT ![p] = FALSE]
    /\ UNCHANGED <<credits, sched, balance, now, createRes, creq, calls, sw, exact, dep, hist, ctl, an, gen, wd>>

PayStep(p) ==
    \/ \E ok \in BOOLEAN : GetByIDSchedule(p, ok)
    \/ \E ok \in BOOLEAN : CsUpdateRemaining(p, ok)
    \/ \E ok \in BOOLEAN : CsGetSchedule(p, ok)
    \/ \E ok \in BOOLEAN : CsLoop(p, ok)
    \/ \E ok \in BOOLEAN : AsGetSchedule(p, ok)
    \/ \E ok, cok \in BOOLEAN : AsMarkPaid(p, ok, cok)
    \/ \E ok, cok \in BOOLEAN : AsUpdateCredit(p, ok, cok)
    \/ \E ok \in BOOLEAN : P9GetSchedule(p, ok)
    \/ \E ok \in BOOLEAN : P9MarkPaid(p, ok)
    \/ Return(p)

\* ------------------------------------------------------------ scheduler
\* a query without the condition on due_date
DueRowsAnyDate(cid) ==
    {j \in 1..Len(sched[cid]) : sched[cid][j].status = PaymentStatusPending}

\* CreditRepository.GetCreditsWithDuePayments of unnamed/part_013: the ids of
\* the credits with c.status = CreditStatusActive that have a row with
\* ps.status = PaymentStatusPending and ps.due_date <= CURRENT_DATE
DueRows(cid) ==
    {j \in 1..Len(sched[cid]) :
        sched[cid][j].status = PaymentStatusPending /\ sched[cid][j].due <= now}

CreditsWithDuePayments ==
    {c \in CreditIds : credits[c].status = CreditStatusActive /\ DueRows(c) # {}}

RECURSIVE SeqOfSet(_)
SeqOfSet(S) ==
    IF S = {} THEN <<>>
    ELSE LET m == CHOOSE x \in S : \A y \in S : x <= y
         IN  <<m>> \o SeqOfSet(S \ {m})

GetCreditsWithDuePayments ==
    LET ids == SeqOfSet(CreditsWithDuePayments)
    IN  [k \in 1..Len(ids) |-> [id |-> ids[k], remaining |-> credits[ids[k]].remaining]]

\* CreditRepository.GetNextPayment of unnamed/part_013: ORDER BY due_date ASC
\* LIMIT 1 among the pending due rows; rows of one date come in any order
NextPayments(cid) ==
    {j \in DueRows(cid) : \A k \in DueRows(cid) : sched[cid][j].due <= sched[cid][k].due}

\* what a sweep runs beside (the clock, deposits, creations, manual
\* payments) and what it may change
Env ==
    <<now, dep.n, dep.pc, Len(credits), calls,
      [p \in Payers |-> <<pay[p].pc, pay[p].idx>>]>>
Tables == <<credits, sched, balance>>

\* the amounts settled per credit, one more added
Settle(settled, cid, amount10) ==
    [c \in DOMAIN settled \cup {cid} |->
        (IF c \in DOMAIN settled THEN settled[c] ELSE 0)
        + (IF c = cid THEN amount10 ELSE 0)]

\* a run of processPayments starts where sw is idle and ends where it is idle
\* again; runs count up while nothing else has happened since the first,
\* clean says that every statement of these runs reached the database, and
\* settled adds up, per credit, the amounts (in tenths of a cent) of the
\* calls of processPayment that returned nil
History(ok) ==
    LET base == IF sw.pc # "idle" THEN hist
                ELSE IF hist.env = Env THEN [hist EXCEPT !.before = Tables]
                ELSE [hist EXCEPT !.env = Env, !.runs = 0, !.before = Tables,
                                  !.clean = TRUE]
        next == [base EXCEPT !.clean = @ /\ ok,
                             !.settled = IF sw.pc = "rem" /\ ok
                                         THEN Settle(@, sw.list[sw.i].id, sw.amount10)
                                         ELSE @]
    IN  hist' = IF sw'.pc = "idle"
                THEN [next EXCEPT !.runs = IF @ < MaxRuns THEN @ + 1 ELSE @]
                ELSE next

\* a loop that ends with the credit it is at
AdvanceAbort == IdleSweep

\* the loop of processPayments goes on with the next credit of its list
Advance ==
    IF sw.i < Len(sw.list)
    THEN [IdleSweep EXCEPT !.pc = "next", !.list = sw.list, !.i = sw.i + 1]
    ELSE IdleSweep

\* processPayments, first statement: the list of credits of this tick; how it
\* came to be called is the caller's part
ProcessPayments(dbOk) ==
    /\ sw.pc = "idle"
    /\ LET list == GetCreditsWithDuePayments
       IN  sw' = IF dbOk /\ Len(list) > 0
                 THEN [IdleSweep EXCEPT !.pc = "next", !.list = list, !.i = 1]
                 ELSE IdleSweep
    /\ UNCHANGED <<credits, sched, balance, now, createRes, creq, pay, wrote, calls, exact, dep, an, gen, wd>>
    /\ History(dbOk)

\* payment, err := s.creditRepo.GetNextPayment(credit.ID)
SwGetNextPayment(dbOk) ==
    /\ sw.pc = "next"
    /\ LET cid == sw.list[sw.i].id
       IN  IF dbOk /\ NextPayments(cid) # {}
           THEN \E j \in NextPayments(cid) :
                   sw' = [sw EXCEPT !.pc = "account", !.row = j, !.bal0 = balance,
                                    !.amount10 = 10 * sched[cid][j].amount]
           ELSE sw' = Advance
    /\ UNCHANGED <<credits, sched, balance, now, createRes, creq, pay, wrote, calls, exact, dep, ctl, an, gen, wd>>
    /\ History(dbOk)

\* processPayment: BeginTransaction, GetAccountByID, and the 10% penalty
\* when account.Balance < payment.Amount (amounts in tenths of a cent)
PenalizedNone(amount10) == amount10

Penalized(amount10) == amount10 + amount10 \div 10

SwGetAccount(dbOk) ==
    /\ sw.pc = "account"
    /\ sw' = IF ~dbOk THEN Advance
             ELSE [sw EXCEPT !.pc = "wd_read",
                             !.pen = 10 * balance < sw.amount10,
                             !.amount10 = IF 10 * balance < sw.amount10
                                          THEN Penalized(sw.amount10) ELSE @]
    /\ UNCHANGED <<credits, sched, balance, now, createRes, creq, pay, wrote, calls, exact, dep, ctl, an, gen, wd>>
    /\ History(dbOk)

\* AccountService.Withdraw: read the account, refuse when Balance < amount
SwWithdrawRead(dbOk) ==
    /\ sw.pc = "wd_read"
    /\ sw' = IF ~dbOk \/ 10 * balance < sw.amount10 THEN Advance
             ELSE [sw EXCEPT !.pc = "wd_write", !.bal = balance]
    /\ UNCHANGED <<credits, sched, balance, now, createRes, creq, pay, wrote, calls, exact, dep, ctl, an, gen, wd>>
    /\ History(dbOk)

\* AccountService.Withdraw: UpdateBalance(account.Balance - amount), then the
\* transaction record; an error of either ends processPayment
SwWithdrawWrite(dbOk, txOk) ==
    /\ sw.pc = "wd_write"
    /\ IF ~dbOk
       THEN /\ sw' = Advance
            /\ UNCHANGED balance
       ELSE /\ balance' = RoundDiv(10 * sw.bal - sw.amount10, 10)
            /\ sw' = IF txOk THEN [sw EXCEPT !.pc = "mark"] ELSE Advance
    /\ UNCHANGED <<credits, sched, now, createRes, creq, pay, wrote, calls, exact, dep, ctl, an, gen, wd>>
    /\ History(dbOk /\ txOk)

\* s.creditRepo.UpdatePaymentStatus(payment.ID, string(models.PaymentStatusPaid))
SwMarkPaid(dbOk) ==
    /\ sw.pc = "mark"
    /\ IF ~dbOk
       THEN /\ sw' = Advance
            /\ UNCHANGED sched
       ELSE /\ UpdatePaymentStatus(sw.list[sw.i].id, sw.row, PaymentStatusPaid)
            /\ sw' = [sw EXCEPT !.pc = "rem"]
    /\ UNCHANGED <<credits, balance, now, createRes, creq, pay, wrote, calls, exact, dep, ctl, an, gen, wd>>
    /\ History(dbOk)

\* s.creditRepo.UpdateRemainingAmount(credit.ID, credit.RemainingAmount - payment.Amount)
\* with the credit as read by GetCreditsWithDuePayments; then tx.Commit()
SwUpdateRemaining(dbOk) ==
    /\ sw.pc = "rem"
    /\ IF ~dbOk
       THEN UNCHANGED credits
       ELSE UpdateRemainingAmount(sw.list[sw.i].id,
                RoundDiv(10 * sw.list[sw.i].remaining - sw.amount10, 10))
    /\ sw' = Advance
    /\ UNCHANGED <<sched, balance, now, createRes, creq, pay, wrote, calls, exact, dep, ctl, an, gen, wd>>
    /\ History(dbOk)

\* ------------------------------------------------------------ deposits
\* AccountService.Deposit of account_service.go:129-156, first statement:
\* the account is read
DepositRead(amount, dbOk) ==
    /\ dep.pc = "idle"
    /\ dep.n < MaxDeposits
    /\ dep' = IF dbOk THEN [pc |-> "write", bal |-> balance, amount |-> amount, n |-> dep.n + 1]
               ELSE [IdleDeposit EXCEPT !.n = dep.n + 1]
    /\ UNCHANGED <<credits, sched, balance, now, createRes, creq, pay, wrote, calls, sw, exact, hist, ctl, an, gen, wd>>

\* UpdateBalance(accountID, account.Balance + amount) with the balance read
DepositWrite(dbOk) ==
    /\ dep.pc = "write"
    /\ balance' = IF dbOk THEN dep.bal + dep.amount ELSE balance
    /\ dep' = [IdleDeposit EXCEPT !.n = dep.n]
    /\ UNCHANGED <<credits, sched, now, createRes, creq, pay, wrote, calls, sw, exact, hist, ctl, an, gen, wd>>

Deposit ==
    \/ \E a \in DepositAmounts, ok \in BOOLEAN : DepositRead(a, ok)
    \/ \E ok \in BOOLEAN : DepositWrite(ok)

\* ------------------------------------------------------------ withdrawals
\* AccountService.Withdraw of account_service.go:158-189 called for a user,
\* first statement: the account is read; "insufficient funds" when
\* account.Balance < amount
WithdrawRead(amount, dbOk) ==
    /\ wd.pc = "idle"
    /\ wd.n < MaxWithdraws
    /\ wd' = IF ~dbOk
             THEN [IdleWithdraw EXCEPT !.n = wd.n + 1, !.res = "account not found"]
             ELSE IF balance < amount
             THEN [IdleWithdraw EXCEPT !.n = wd.n + 1, !.res = "insufficient funds"]
             ELSE [pc |-> "write", bal |-> balance, amount |-> amount, n |-> wd.n + 1,
                   res |-> "none"]
    /\ UNCHANGED <<credits, sched, balance, now, createRes, creq, pay, wrote, calls, sw, exact, dep, hist, ctl, an, gen>>

\* UpdateBalance(accountID, account.Balance - amount) with the balance read,
\* then the transaction record
WithdrawWrite(dbOk, txOk) ==
    /\ wd.pc = "write"
    /\ balance' = IF dbOk THEN wd.bal - wd.amount ELSE balance
    /\ wd' = [IdleWithdraw EXCEPT !.n = wd.n, !.amount = wd.amount,
                                  !.res = IF dbOk /\ txOk THEN "nil"
                                          ELSE "internal server error"]
    /\ UNCHANGED <<credits, sched, now, createRes, creq, pay, wrote, calls, sw, exact, dep, hist, ctl, an, gen>>

Withdraw ==
    \/ \E a \in WithdrawAmounts, ok \in BOOLEAN : WithdrawRead(a, ok)
    \/ \E ok, tok \in BOOLEAN : WithdrawWrite(ok, tok)

\* a sweep started at any moment: the tick that started it is not modelled
Sweep ==
    \/ \E ok \in BOOLEAN : ProcessPayments(ok) /\ UNCHANGED ctl
    \/ \E ok \in BOOLEAN : SwGetNextPayment(ok)
    \/ \E ok \in BOOLEAN : SwGetAccount(ok)
    \/ \E ok \in BOOLEAN : SwWithdrawRead(ok)
    \/ \E ok, tok \in BOOLEAN : SwWithdrawWrite(ok, tok)
    \/ \E ok \in BOOLEAN : SwMarkPaid(ok)
    \/ \E ok \in BOOLEAN : SwUpdateRemaining(ok)

Create ==
    \/ \E a \in Amounts, t \in Terms, r \in Rates, ok \in BOOLEAN :
          CreateCredit(a, t, r, ok)
    \/ \E a \in Amounts, t \in Terms, r \in Rates, ok \in BOOLEAN, k \in 0..MaxTerm :
          k <= t /\ CreateCreditTyped(a, t, r, ok, k)

Request(p) ==
    \E i \in Impls, r \in Repos, c \in 1..MaxCredits, a \in PayAmounts, ok \in BOOLEAN :
        PayCredit(p, i, r, c, a, ok)

Next ==
    \/ Create
    \/ Tick
    \/ \E p \in Payers : Request(p)
    \/ \E p \in Payers : PayStep(p)
    \/ Sweep

\* the whole system: requests, clock and scheduler
Spec == Init /\ [][Next]_vars

\* the requests alone: CreateCredit and concurrent PayCredit, no scheduler
NextPay ==
    \/ Create
    \/ \E p \in Payers : Request(p)
    \/ \E p \in Payers : PayStep(p)

SpecPay == Init /\ [][NextPay]_vars

\* one client: each PayCredit returns before the next one starts
NextSeq ==
    \/ Create
    \/ Request("p1")
    \/ PayStep("p1")

SpecSeq == Init /\ [][NextSeq]_vars

\* account_service.go and unnamed/part_009 over the repository of
\* unnamed/part_012: the PayCredit implementations that take a transaction
Request012(p) ==
    \E i \in {"AccountService", "CreditService009"}, c \in 1..MaxCredits,
       a \in PayAmounts, ok \in BOOLEAN :
        PayCredit(p, i, "part_012", c, a, ok)

PayStep012(p) ==
    \/ \E ok \in BOOLEAN : GetByIDSchedule(p, ok)
    \/ \E ok \in BOOLEAN : AsGetSchedule(p, ok)
    \/ \E ok, cok \in BOOLEAN : AsMarkPaid(p, ok, cok)
    \/ \E ok, cok \in BOOLEAN : AsUpdateCredit(p, ok, cok)
    \/ \E ok \in BOOLEAN : P9GetSchedule(p, ok)
    \/ \E ok \in BOOLEAN : P9MarkPaid(p, ok)
    \/ Return(p)

NextPart012 ==
    \/ Create
    \/ \E p \in Payers : Request012(p)
    \/ \E p \in Payers : PayStep012(p)

SpecPart012 == Init /\ [][NextPart012]_vars

\* the scheduler alone: credits are created, days pass, the sweep runs
NextSweep ==
    \/ Create
    \/ Tick
    \/ Sweep

SpecSweep == Init /\ [][NextSweep]_vars

\* CreateCredit requests as a client may send them: a zero amount, term or
\* rate included.  The services that do not check the request get the zero
\* amount and the zero term only (a zero rate makes their payment 0/0)
CreateAmounts == Amounts \cup {0}
CreateTerms == 0..MaxTerm
CreateRates == Rates \cup {0}

CreateAny ==
    \/ \E a \in CreateAmounts, t \in CreateTerms, r \in CreateRates, ok \in BOOLEAN :
          CreateCredit(a, t, r, ok)
    \/ \E a \in CreateAmounts, t \in CreateTerms, r \in Rates, ok \in BOOLEAN,
          k \in 0..MaxTerm :
          k <= t /\ AsCreateCredit(a, t, r, ok, k)
    \/ \E a \in CreateAmounts, t \in CreateTerms, r \in Rates, ok \in BOOLEAN :
          P9CreateCredit(a, t, r, ok)
    \/ \E a \in CreateAmounts, t \in CreateTerms, r \in Rates, ok \in BOOLEAN,
          k \in 0..MaxTerm :
          k <= t /\ CreateCreditTyped(a, t, r, ok, k)

\* every CreateCredit of the repository, and one client paying
NextCreate ==
    \/ CreateAny
    \/ Request("p1")
    \/ PayStep("p1")

SpecCreate == Init /\ [][NextCreate]_vars

\* one PayCredit request while the scheduler sweeps
RequestOnce(p) == calls = 0 /\ Request(p)

NextMixed ==
    \/ Create
    \/ Tick
    \/ Sweep
    \/ RequestOnce("p1")
    \/ PayStep("p1")

SpecMixed == Init /\ [][NextMixed]_vars

\* the scheduler with several credits due in one tick
CreateDue ==
    \E a \in Amounts, t \in Terms, r \in Rates, ok \in BOOLEAN, k \in 0..MaxTerm :
        k <= t /\ CreateCreditUpTo(MaxDue, a, t, r, ok, k)

NextDue ==
    \/ CreateDue
    \/ Tick
    \/ Sweep

SpecDue == Init /\ [][NextDue]_vars

\* ------------------------------------------------- GetCreditAnalytics
\* GetCreditAnalytics of credit_service.go:40-103 (and unnamed/part_010)
\* creditsByStatus[credit.Status]++
CountStatusOf(byStatus, status) ==
    [st \in DOMAIN byStatus \cup {status} |->
        (IF st \in DOMAIN byStatus THEN byStatus[st] ELSE 0)
        + (IF st = status THEN 1 ELSE 0)]

\* the head of the loop over the credits, lines 58-62
CountCredit(acc, credit) ==
    [acc EXCEPT !.totalCredits = @ + 1,
                !.totalAmount = @ + credit.amount,
                !.totalInterest = @ + credit.rate,
                !.creditsByStatus = CountStatusOf(@, credit.status)]

\* the loop over the schedule of one credit, lines 72-84
RECURSIVE ScanSchedule(_, _, _)
ScanSchedule(acc, rows, i) ==
    IF i > Len(rows) THEN acc
    ELSE LET payment == rows[i]
             summed == IF payment.status = "PAID"
                       THEN [acc EXCEPT !.totalPaid = @ + payment.amount]
                       ELSE [acc EXCEPT !.totalRemaining = @ + payment.amount]
             found == IF /\ payment.status = "PENDING"
                         /\ (~summed.hasNext \/ payment.due < summed.nextPaymentDate)
                      THEN [summed EXCEPT !.hasNext = TRUE,
                                          !.nextPaymentDate = payment.due,
                                          !.nextPaymentAmount = payment.amount]
                      ELSE summed
         IN  ScanSchedule(found, rows, i + 1)

\* lines 87-102: the average and the answer
AnFinish(rec, acc) ==
    [rec EXCEPT !.pc = "done", !.res = "ok",
                !.acc = [acc EXCEPT !.averageInterest =
                            IF acc.totalCredits > 0
                            THEN acc.totalInterest \div acc.totalCredits ELSE 0]]

\* credits, err := s.creditRepo.GetByUserID(userID)
AnGetByUserID(dbOk) ==
    /\ an.pc = "idle"
    /\ an.n < MaxAnalytics
    /\ LET rec == [IdleAnalytics EXCEPT !.n = an.n + 1, !.before = <<credits, sched, balance>>,
                                        !.list = [c \in CreditIds |->
                                                     [id |-> c, amount |-> credits[c].amount,
                                                      rate |-> credits[c].rate,
                                                      status |-> credits[c].status]],
                                        !.i = 1]
       IN  an' = IF ~dbOk THEN [rec EXCEPT !.pc = "done", !.res = "Internal"]
                 ELSE IF Len(rec.list) = 0 THEN AnFinish(rec, NoAnalytics)
                 ELSE [rec EXCEPT !.pc = "sched"]
    /\ UNCHANGED <<credits, sched, balance, now, createRes, creq, pay, wrote, calls, sw, exact, dep, hist, ctl, gen, wd>>

\* one turn of the loop: the credit is counted, GetPaymentSchedule(credit.ID)
\* is read and scanned; an error of it ends the request
AnGetPaymentSchedule(dbOk) ==
    /\ an.pc = "sched"
    /\ LET credit == an.list[an.i]
           acc == ScanSchedule(CountCredit(an.acc, credit), GetPaymentSchedule(credit.id), 1)
       IN  an' = IF ~dbOk THEN [an EXCEPT !.pc = "done", !.res = "Internal"]
                 ELSE IF an.i < Len(an.list) THEN [an EXCEPT !.acc = acc, !.i = an.i + 1]
                 ELSE AnFinish(an, acc)
    /\ UNCHANGED <<credits, sched, balance, now, createRes, creq, pay, wrote, calls, sw, exact, dep, hist, ctl, gen, wd>>

AnReturn ==
    /\ an.pc = "done"
    /\ an' = [IdleAnalytics EXCEPT !.n = an.n]
    /\ UNCHANGED <<credits, sched, balance, now, createRes, creq, pay, wrote, calls, sw, exact, dep, hist, ctl, gen, wd>>

GetCreditAnalytics ==
    \/ \E ok \in BOOLEAN : AnGetByUserID(ok)
    \/ \E ok \in BOOLEAN : AnGetPaymentSchedule(ok)
    \/ AnReturn

\* analytics asked for while credits are created and the scheduler sweeps
NextAnalytics ==
    \/ Create
    \/ Tick
    \/ Sweep
    \/ GetCreditAnalytics

SpecAnalytics == Init /\ [][NextAnalytics]_vars

\* ------------------------------------------------- Start, Stop and run
\* Start of payment_scheduler.go:37-40: go s.run()
Start ==
    /\ ctl.run = "new"
    /\ ctl' = [ctl EXCEPT !.run = "running"]
    /\ UNCHANGED <<credits, sched, balance, now, createRes, creq, pay, wrote, calls, sw, exact, dep, hist, an, gen, wd>>

\* the ticker of NewPaymentScheduler fires: ticker.C holds one tick, a tick
\* that finds it full is dropped; a stopped ticker fires no more
TimerFire ==
    /\ ~ctl.stop
    /\ ctl.tick = 0
    /\ ctl' = [ctl EXCEPT !.tick = 1]
    /\ UNCHANGED <<credits, sched, balance, now, createRes, creq, pay, wrote, calls, sw, exact, dep, hist, an, gen, wd>>

\* Stop of payment_scheduler.go:43-47: s.ticker.Stop(), which leaves a tick
\* already in ticker.C where it is, then s.done <- true, which waits for run
\* to receive: the call is counted in waiting until run has received
Stop ==
    /\ ctl.waiting + ctl.returned < MaxStops
    /\ ctl' = [ctl EXCEPT !.stop = TRUE, !.waiting = @ + 1]
    /\ UNCHANGED <<credits, sched, balance, now, createRes, creq, pay, wrote, calls, sw, exact, dep, hist, an, gen, wd>>

\* run of payment_scheduler.go:50-59, case <-s.ticker.C: s.processPayments()
RunTick(dbOk) ==
    /\ ctl.run = "running"
    /\ ctl.tick = 1
    /\ ctl' = [ctl EXCEPT !.tick = 0]
    /\ ProcessPayments(dbOk)

\* run, case <-s.done: return; the select takes either case that is ready,
\* and the Stop whose value it received returns
RunDone ==
    /\ ctl.run = "running"
    /\ sw.pc = "idle"
    /\ ctl.waiting > 0
    /\ ctl' = [ctl EXCEPT !.run = "returned", !.waiting = @ - 1, !.returned = @ + 1]
    /\ UNCHANGED <<credits, sched, balance, now, createRes, creq, pay, wrote, calls, sw, exact, dep, hist, an, gen, wd>>

\* the statements of a sweep after its first
SweepSteps ==
    \/ \E ok \in BOOLEAN : SwGetNextPayment(ok)
    \/ \E ok \in BOOLEAN : SwGetAccount(ok)
    \/ \E ok \in BOOLEAN : SwWithdrawRead(ok)
    \/ \E ok, tok \in BOOLEAN : SwWithdrawWrite(ok, tok)
    \/ \E ok \in BOOLEAN : SwMarkPaid(ok)
    \/ \E ok \in BOOLEAN : SwUpdateRemaining(ok)

NextStop ==
    \/ Create
    \/ Tick
    \/ Start
    \/ TimerFire
    \/ Stop
    \/ \E ok \in BOOLEAN : RunTick(ok)
    \/ RunDone
    \/ SweepSteps

SpecStop == Init /\ [][NextStop]_vars

\* the same with the goroutine of run and the database going on: run takes a
\* case of its select that stays ready, a statement of a sweep returns
SpecStopFair ==
    /\ SpecStop
    /\ WF_vars(\E ok \in BOOLEAN : RunTick(ok))
    /\ WF_vars(RunDone)
    /\ WF_vars(SweepSteps)

\* the scheduler and the funding account: credits are created, days pass,
\* the sweep runs, money is deposited; the account may start below an
\* installment
NextFunds ==
    \/ Create
    \/ Tick
    \/ Sweep
    \/ Deposit

SpecFunds == InitWith(LowBalances) /\ [][NextFunds]_vars

\* PayCredit of credit_service.go alone, two requests at a time
RequestCs(p) ==
    \E r \in Repos, c \in 1..MaxCredits, a \in PayAmounts, ok \in BOOLEAN :
        PayCredit(p, "CreditService", r, c, a, ok)

PayStepCs(p) ==
    \/ \E ok \in BOOLEAN : GetByIDSchedule(p, ok)
    \/ \E ok \in BOOLEAN : CsUpdateRemaining(p, ok)
    \/ \E ok \in BOOLEAN : CsGetSchedule(p, ok)
    \/ \E ok \in BOOLEAN : CsLoop(p, ok)
    \/ Return(p)

NextCs ==
    \/ Create
    \/ \E p \in Payers : RequestCs(p)
    \/ \E p \in Payers : PayStepCs(p)

SpecCs == Init /\ [][NextCs]_vars

\* the scheduler and a user both debiting the funding account
NextDebit ==
    \/ Create
    \/ Tick
    \/ Sweep
    \/ Withdraw

SpecDebit == Init /\ [][NextDebit]_vars

\* the schedule generators alone, each applied to a request drawn at the start
NextSchedule ==
    \/ GeneratePtr
    \/ GenerateValue
    \/ GenerateTyped

SpecSchedule == InitBut(Balances, ScheduleCalls) /\ [][NextSchedule]_vars

\* ------------------------------------------------------------ properties
Done(p) == pay[p].pc = "done"

\* the errors by which PayCredit refuses a payment
Rejected == {"NoPendingPayment", "InvalidArgument", "InvalidState"}

\* both requests were in flight at the same time
Overlap(p, q) == pay[p].endc >= pay[q].start /\ pay[q].endc >= pay[p].start

\* the request found an ACTIVE credit and asks for 0 < amount <= the stored
\* remaining amount
ValidPayment(p) ==
    /\ pay[p].loaded
    /\ pay[p].status0 = "ACTIVE"
    /\ 0 < pay[p].req
    /\ pay[p].req <= pay[p].stored0

\* C1: when two PayCredit calls on the same credit overlap while exactly one
\* installment of the credit is unpaid, exactly one of them is accepted (and
\* marks the installment PAID), the other one is rejected, and the remaining
\* amount is not lowered by both payments.
C1_ExactlyOnePays ==
    \A p, q \in Payers :
        ( /\ p # q /\ Done(p) /\ Done(q)
          /\ pay[p].cid = pay[q].cid
          /\ ValidPayment(p) /\ ValidPayment(q)
          /\ pay[p].unpaid0 = 1 /\ pay[q].unpaid0 = 1
          /\ Overlap(p, q)
          /\ pay[p].res # "Internal" /\ pay[q].res # "Internal" )
        => /\ \/ pay[p].res = "ok" /\ pay[q].res \in Rejected
              \/ pay[q].res = "ok" /\ pay[p].res \in Rejected
           /\ credits[pay[p].cid].remaining # pay[p].stored0 - pay[p].req - pay[q].req

\* C2: PayCredit is all-or-nothing: a call that fails in one of its steps
\* leaves the credit's remaining amount, its status and the statuses of its
\* installments as they were before the call.
C2_AllOrNothing ==
    \A p \in Payers :
        (Done(p) /\ pay[p].res = "Internal") => ~wrote[p]

\* C3: the remaining amount of every credit is between 0 and the principal
\* at all times, and no step raises it.
C3_Range ==
    \A c \in CreditIds :
        0 <= credits[c].remaining /\ credits[c].remaining <= credits[c].amount

C3_NonIncreasing ==
    \A c \in CreditIds : credits'[c].remaining <= credits[c].remaining

C4_CompletedIffZero ==
    \A p \in Payers :
        (Done(p) /\ pay[p].res = "ok")
        => (credits[pay[p].cid].remaining = 0
            <=> credits[pay[p].cid].status = "COMPLETED")

\* C5: PayCredit on a credit that is not ACTIVE (COMPLETED) is rejected with
\* the invalid-state error and changes nothing.
C5_NonActiveRejected ==
    \A p \in Payers :
        (Done(p) /\ pay[p].loaded /\ pay[p].status0 = "COMPLETED")
        => pay[p].res = "InvalidState" /\ ~wrote[p]

C7_DecrementsStored ==
    \A p \in Payers :
        (Done(p) /\ ValidPayment(p) /\ pay[p].pending0 >= 1 /\ pay[p].res # "Internal")
        => /\ pay[p].res = "ok"
           /\ credits[pay[p].cid].remaining = pay[p].stored0 - pay[p].req

\* C8: a PayCredit with a valid amount on an ACTIVE credit without a PENDING
\* installment fails with the no-pending-payment error and leaves the stored
\* remaining amount as it was.
C8_NoPendingPayment ==
    \A p \in Payers :
        (Done(p) /\ ValidPayment(p) /\ pay[p].pending0 = 0 /\ pay[p].res # "Internal")
        => /\ pay[p].res = "NoPendingPayment"
           /\ credits[pay[p].cid].remaining = pay[p].stored0

C10_FullRepayment ==
    \A p \in Payers :
        ( /\ Done(p) /\ pay[p].loaded /\ pay[p].status0 = "ACTIVE"
          /\ pay[p].run0 >= 0 /\ pay[p].isExact
          /\ pay[p].res # "Internal" )
        => /\ pay[p].res = "ok"
           /\ (pay[p].run0 + 1 = credits[pay[p].cid].term)
              => /\ \A i \in 1..Len(sched[pay[p].cid]) :
                        sched[pay[p].cid][i].status = "PAID"
                 /\ credits[pay[p].cid].remaining = 0
                 /\ credits[pay[p].cid].status = "COMPLETED"

\* C11: a CreateCredit request with amount <= 0, termMonths <= 0 or
\* interestRate <= 0 is answered with the invalid-argument error and creates
\* neither a credit nor an installment.
C11_InvalidRequestRejected ==
    ( /\ creq.impl # "none"
      /\ (creq.amount <= 0 \/ creq.term <= 0 \/ creq.rate <= 0) )
    => createRes = "InvalidArgument" /\ Len(credits) = creq.n0

\* C12: credit creation is atomic with schedule generation: in every state
\* every credit has exactly its termMonths installments, and a CreateCredit
\* that failed has left no credit behind.
C12_CreationAtomic ==
    /\ \A c \in CreditIds : Len(sched[c]) = credits[c].term
    /\ (creq.impl # "none" /\ createRes # "ok") => Len(credits) = creq.n0

\* a successful CreateCredit leaves a credit with the whole amount remaining,
\* status ACTIVE and exactly termMonths installments, all PENDING
C13_Created ==
    ( /\ Len(credits') = Len(credits) + 1 /\ createRes' = "ok"
      /\ creq'.amount > 0 /\ creq'.term > 0 /\ creq'.rate > 0 )
    => LET c == Len(credits')
       IN  /\ credits'[c].remaining = creq'.amount
           /\ credits'[c].status = "ACTIVE"
           /\ Len(sched'[c]) = creq'.term
           /\ \A i \in 1..Len(sched'[c]) : sched'[c][i].status = "PENDING"

\* no step adds, deletes or reorders installments of an existing credit
C13_RowsKept ==
    \A c \in CreditIds :
        /\ Len(sched'[c]) = Len(sched[c])
        /\ \A i \in 1..Len(sched[c]) :
              /\ sched'[c][i].num = sched[c][i].num
              /\ sched'[c][i].due = sched[c][i].due
              /\ sched'[c][i].amount = sched[c][i].amount

\* C13: after a successful CreateCredit the credit has remainingAmount =
\* amount, status ACTIVE and exactly termMonths installments, all PENDING, and
\* no later operation adds, deletes or reorders its installments.
C13_ScheduleAsCreated == [][C13_Created /\ C13_RowsKept]_vars

\* the installment the sweep is settling, as stored
SweepRow == sched[sw.list[sw.i].id][sw.row]

\* C14: when the balance the sweep reads is below the installment, the debit
\* it attempts is the installment plus 10%: the amount carried into Withdraw
\* is 1.10 times the stored installment, a debit made in that cycle takes
\* exactly that amount and never the plain installment, and when the account
\* does not cover the penalized amount Withdraw fails and the balance stays
C14_PenalizedAmount ==
    (sw.pc \in {"wd_read", "wd_write", "mark", "rem"} /\ sw.pen)
        => sw.amount10 = 11 * SweepRow.amount

C14_Debit ==
    (sw.pc = "wd_write" /\ sw.pen /\ sw'.pc = "mark")
        => /\ balance' = RoundDiv(10 * sw.bal - 11 * SweepRow.amount, 10)
           /\ balance' # sw.bal - SweepRow.amount

C14_Uncovered ==
    (sw.pc = "wd_read" /\ sw.pen /\ 10 * balance < 11 * SweepRow.amount /\ sw' # sw)
        => balance' = balance /\ sw'.pc # "wd_write"

C14_PenaltyBeforeDebit ==
    [][C14_PenalizedAmount /\ C14_Debit /\ C14_Uncovered]_vars

\* a penalized installment has been debited
C14_Witness == sw.pc = "mark" /\ sw.pen /\ 10 * balance = 10 * sw.bal - sw.amount10

\* C15: of two sweeps run in immediate succession (the clock, the deposits,
\* the credits and the manual payments are the same from the start of the
\* first to the end of the second, and no statement of either has failed),
\* the second changes no balance, no installment and no credit
C15_IdempotentSweep ==
    (sw.pc = "idle" /\ hist.runs >= 2 /\ hist.env = Env /\ hist.clean)
        => Tables = hist.before

ManualMarks == {"PAID", "PARTIAL"}

\* C17: a manual PayCredit and a sweep on the same credit never both select
\* and pay the same installment: the sweep marks no installment a PayCredit
\* has marked, and a PayCredit marks no installment the sweep has marked
C17_Marks ==
    \A c \in CreditIds : \A j \in 1..Len(sched[c]) :
        sched'[c][j].status # sched[c][j].status
            => IF sched'[c][j].status = PaymentStatusPaid
               THEN sched[c][j].status \notin ManualMarks
               ELSE sched[c][j].status # PaymentStatusPaid

C19_GoesOn ==
    (sw.pc # "idle" /\ sw.i < Len(sw.list))
        => /\ sw'.pc # "idle"
           /\ sw'.list = sw.list
           /\ sw'.i \in {sw.i, sw.i + 1}

C19_OthersKept ==
    sw.pc # "idle"
        => \A c \in CreditIds \ {sw.list[sw.i].id} :
              credits'[c] = credits[c] /\ sched'[c] = sched[c]

C19_FailureIsolation == [][C19_GoesOn /\ C19_OthersKept]_vars

\* the second credit of a tick is being settled although nothing of the
\* first one, which was due, has been settled
C19_Witness ==
    /\ sw.pc = "rem"
    /\ sw.i = 2
    /\ \A j \in 1..Len(sched[sw.list[1].id]) :
          sched[sw.list[1].id][j].status = PaymentStatusPending
    /\ credits[sw.list[1].id].remaining = sw.list[1].remaining
    /\ SweepRow.status = PaymentStatusPaid

\* an installment that has been paid, one that waits to be paid, in either
\* spelling the program writes
IsPaid(status) == status \in {"PAID", PaymentStatusPaid}
IsPending(status) == status \in {"PENDING", PaymentStatusPending}

\* all installments of all credits, as <<credit, index>>
Installments == {<<c, j>> \in CreditIds \X (1..MaxTerm + MaxTerm) : j <= Len(sched[c])}

RECURSIVE SumAmounts(_)
SumAmounts(S) ==
    IF S = {} THEN 0
    ELSE LET x == CHOOSE y \in S : TRUE
         IN  sched[x[1]][x[2]].amount + SumAmounts(S \ {x})

RECURSIVE SumPrincipal(_)
SumPrincipal(C) ==
    IF C = {} THEN 0
    ELSE LET c == CHOOSE y \in C : TRUE
         IN  credits[c].amount + SumPrincipal(C \ {c})

PendingInstallments == {x \in Installments : IsPending(sched[x[1]][x[2]].status)}

\* C20: what GetCreditAnalytics answers, when nothing was written while it
\* ran: the sum of the credit amounts, the sum of the paid installments,
\* the sum of all the others, the number of credits per status, and as next
\* payment the date and amount of a pending installment of the earliest due
\* date, none when no installment is pending
C20_Analytics ==
    (an.pc = "done" /\ an.res = "ok" /\ an.before = Tables)
    => /\ an.acc.totalAmount = SumPrincipal(CreditIds)
       /\ an.acc.totalPaid
            = SumAmounts({x \in Installments : IsPaid(sched[x[1]][x[2]].status)})
       /\ an.acc.totalRemaining
            = SumAmounts({x \in Installments : ~IsPaid(sched[x[1]][x[2]].status)})
       /\ an.acc.creditsByStatus
            = [st \in {credits[c].status : c \in CreditIds} |->
                  Cardinality({c \in CreditIds : credits[c].status = st})]
       /\ an.acc.hasNext = (PendingInstallments # {})
       /\ an.acc.hasNext
            => \E x \in PendingInstallments :
                  /\ sched[x[1]][x[2]].due = an.acc.nextPaymentDate
                  /\ sched[x[1]][x[2]].amount = an.acc.nextPaymentAmount
                  /\ \A y \in PendingInstallments :
                        sched[x[1]][x[2]].due <= sched[y[1]][y[2]].due

\* processPayment returns an error in this step
SweepFails ==
    /\ sw.pc \in {"account", "wd_read", "wd_write", "mark", "rem"}
    /\ sw'.pc \in {"next", "idle"}
    /\ ~(sw.pc = "rem" /\ credits' # credits)

\* C21: the settlement of one credit by the sweep is all or nothing: when a
\* step of processPayment fails, the balance, the status of the installment
\* and the remaining amount of the credit are as they were when
\* processPayment was called
C21_Settlement ==
    SweepFails
        => /\ balance' = sw.bal0
           /\ sched'[sw.list[sw.i].id][sw.row].status = PaymentStatusPending
           /\ credits'[sw.list[sw.i].id].remaining = sw.list[sw.i].remaining

C21_AllOrNothing == [][C21_Settlement]_vars

\* C22: the walk of PayCredit over the pending installments stops when the
\* payment is used up: an installment whose status the loop changes has had a
\* positive part of the payment applied to it, it becomes PAID when what was
\* left covered its amount and PARTIAL only when what was left was positive
\* and smaller than its amount
C22_Applied ==
    \A p \in Payers :
        (pay[p].pc = "cs_loop" /\ sched' # sched)
        => LET c == pay[p].cid
               j == pay[p].idx
               left == pay[p].amount
           IN  /\ left > 0
               /\ sched'[c][j].status = "PAID" => left >= sched[c][j].amount
               /\ sched'[c][j].status = "PARTIAL" => left < sched[c][j].amount

C23_Decrease ==
    (sw.pc = "rem" /\ sw' # sw /\ credits' # credits)
        => /\ SweepRow.status = PaymentStatusPaid
           /\ credits[sw.list[sw.i].id].remaining - credits'[sw.list[sw.i].id].remaining
                = sw.bal0 - balance

C24_Selected ==
    LET c == sw.list[sw.i].id
        rows == sched[c]
    IN  /\ credits[c].status = "active"
        /\ rows[sw.row].status = "pending"
        /\ rows[sw.row].due <= now
        /\ \A k \in 1..Len(rows) :
              rows[k].status = "pending" => rows[sw.row].due <= rows[k].due

C24_Write ==
    (sw.pc \in {"wd_write", "mark", "rem"} /\ sw' # sw /\ Tables' # Tables)
        => LET c == sw.list[sw.i].id
           IN  /\ sw.pc = "wd_write" => C24_Selected
               /\ sw.pc # "wd_write" => credits[c].status = "active"
               /\ \A d \in CreditIds : \A j \in 1..Len(sched[d]) :
                      sched'[d][j] # sched[d][j] => d = c /\ j = sw.row
               /\ \A d \in CreditIds : credits'[d] # credits[d] => d = c
               /\ \A k \in 1..Len(sw.list) : sw.list[k].id = c => k = sw.i

C24_OnlyDueOfActive == [][C24_Write]_vars

\* a due installment has been marked paid while a later one of the same credit is
\* due and pending
C24_Witness ==
    /\ sw.pc = "rem"
    /\ SweepRow.status = PaymentStatusPaid
    /\ \E j \in DueRows(sw.list[sw.i].id) : j # sw.row

\* C25: in a generated schedule installment k is due k months after the
\* start date, so the first is due one month after the start and never on
\* the start date, and the due dates strictly increase
C25_DueDates ==
    gen.pc = "done"
        => /\ \A k \in 1..Len(gen.rows) : gen.rows[k].due = gen.start + k
           /\ \A k \in 1..(Len(gen.rows) - 1) : gen.rows[k].due < gen.rows[k + 1].due

\* the principal parts of the first k rows, added up
RECURSIVE PrincipalUpTo(_, _)
PrincipalUpTo(rows, k) ==
    IF k = 0 THEN <<0, 1>> ELSE FracAdd(PrincipalUpTo(rows, k - 1), rows[k].principal)

\* a fraction of at most one cent either way
WithinCent(x) == Abs(x[1]) <= x[2]

C27_Step ==
    /\ \A c \in CreditIds : \A j \in 1..Len(sched[c]) :
          IsPaid(sched[c][j].status) => sched'[c][j].status = sched[c][j].status
    /\ \A p \in Payers :
          (pay[p].pc = "cs_loop" /\ pay'[p] # pay[p] /\ pay'[p].res # "Internal")
              => ~IsPaid(sched[pay[p].cid][pay[p].idx].status)

C28_StopReturns ==
    \A k \in 1..MaxStops :
        (ctl.waiting + ctl.returned >= k) ~> (ctl.returned >= k)

\* a credit that is active, in either spelling the program writes
IsActive(status) == status \in {"ACTIVE", CreditStatusActive}

\* the installments of credit c that were pending and due in the tables T
\* and that the balance of T covered
DueAndCovered(T, c) ==
    {j \in 1..Len(T[2][c]) :
        /\ IsPending(T[2][c][j].status)
        /\ T[2][c][j].due <= now
        /\ T[2][c][j].amount <= T[3]}

\* C29: the statuses written by one operation are the ones the others test:
\* when a sweep has run to its end with no failed statement and nothing else
\* happening, a credit that was active with a pending due installment the
\* balance covered has had such an installment marked paid
C29_CreatedIsSwept ==
    (sw.pc = "idle" /\ hist.runs >= 1 /\ hist.clean /\ hist.env = Env)
        => \A c \in 1..Len(hist.before[1]) :
              (IsActive(hist.before[1][c].status) /\ DueAndCovered(hist.before, c) # {})
                  => \E j \in DueAndCovered(hist.before, c) : IsPaid(sched[c][j].status)

\* C30: the balance is never negative, a debit of Withdraw or of the sweep
\* is written only when the balance at the moment of the write covers it,
\* and a Withdraw refused for insufficient funds leaves the balance as it was
C30_Debit ==
    /\ balance' >= 0
    /\ (wd.pc = "write" /\ wd'.res = "nil") => balance >= wd.amount
    /\ (sw.pc = "wd_write" /\ sw'.pc = "mark") => 10 * balance >= sw.amount10
    /\ (wd' # wd /\ wd'.res = "insufficient funds") => balance' = balance

C30_CoveredDebits == [][C30_Debit]_vars

\* what of C30 the program keeps: no negative balance
C30_NonNegative == balance >= 0


====
